---- MODULE Spec2Model ----
(***************************************************************************)
(* DAG operations of the ruvector-gnn-wasm crate (dag.rs): has_cycle,      *)
(* find_cycle_nodes (Tarjan), build_adjacency, get_ready_beads and         *)
(* compute_levels, each a computation over a decoded array of BeadNode    *)
(* records.                                                                *)
(***************************************************************************)
EXTENDS Integers, Sequences, FiniteSets, TLC

(* ------------------------------------------------------------------ *)
(* Bounds of the input arrays                                          *)
(* ------------------------------------------------------------------ *)

\* Largest number of records in an input array.
MaxBeads == 4
\* Largest total number of ids over the dependency lists of an input array.
MaxRefs == 3

\* Ids are opaque strings that the code only compares for equality (and
\* hashes); input arrays are enumerated up to renaming: the k-th distinct id
\* of an array is IdNames[k].
IdNames == <<"a", "b", "c", "d", "e", "f", "g", "h">>

\* The ids a dependency list may hold: the ids records can have, and one more
\* that no record ever has.
RefIds == {IdNames[i] : i \in 1..(MaxBeads + 1)}

(* ------------------------------------------------------------------ *)
(* Generic helpers                                                     *)
(* ------------------------------------------------------------------ *)

Range(s) == {s[i] : i \in DOMAIN s}

SetMax(S) == CHOOSE x \in S : \A y \in S : y <= x

SetMin(S) == CHOOSE x \in S : \A y \in S : x <= y

Min2(x, y) == IF x <= y THEN x ELSE y

\* The elements of a finite set of integers, ascending.
SortedSeq(S) ==
    [k \in 1..Cardinality(S) |->
        CHOOSE i \in S : Cardinality({j \in S : j < i}) = k - 1]

\* The empty map.
EmptyMap == [x \in {} |-> 0]

\* HashMap::insert: the new value replaces an old one.
MapInsert(m, k, v) == (k :> v) @@ m

\* All sequences over S of length at most k.
SeqsUpTo(S, k) == UNION {[1..m -> S] : m \in 0..k}

\* All permutations of the sequence positions 1..n.
Perms(n) == {p \in [1..n -> 1..n] : \A i, j \in 1..n : p[i] = p[j] => i = j}

(* ------------------------------------------------------------------ *)
(* BeadNode and the input arrays                                       *)
(* ------------------------------------------------------------------ *)

\* The fields of a BeadNode the algorithms read (title, priority and duration
\* are read by none of them).
BeadNode(id, status, blocked_by, blocks) ==
    [id |-> id, status |-> status, blocked_by |-> blocked_by, blocks |-> blocks]

Ids(beads) == {beads[i].id : i \in DOMAIN beads}

UniqueIds(beads) ==
    \A i, j \in DOMAIN beads : beads[i].id = beads[j].id => i = j

\* Id sequences of length n, up to renaming: each record repeats an earlier id
\* or takes the next unused name.
RECURSIVE AllIdSeqs(_)
AllIdSeqs(n) ==
    IF n = 0 THEN {<<>>}
    ELSE UNION {{Append(s, IdNames[j]) : j \in 1..(Cardinality(Range(s)) + 1)}
                    : s \in AllIdSeqs(n - 1)}

\* The id sequences of the input arrays of at most m records: arrays of m
\* records have distinct ids, shorter arrays may repeat ids.
IdSeqs(n, m) == IF n < m THEN AllIdSeqs(n) ELSE {[i \in 1..n |-> IdNames[i]]}

\* The position of an id in IdNames.
NameIndex(x) == CHOOSE j \in DOMAIN IdNames : IdNames[j] = x

\* The list entries are named up to renaming too: an id that no record has is
\* the first unused name, or a name that follows one used by an earlier entry.
CanonicalRefs(ids, flat) ==
    LET d == Cardinality(Range(ids)) IN
    \A p \in DOMAIN flat :
        NameIndex(flat[p]) > d + 1 =>
            \E q \in 1..(p - 1) : NameIndex(flat[q]) = NameIndex(flat[p]) - 1

\* The ways k list entries, kept in order, are shared out over n lists.
Owners(k, n) ==
    {own \in [1..k -> 1..n] : \A p \in 1..(k - 1) : own[p] <= own[p + 1]}

\* The n dependency lists that hold the entries of flat as own shares them out.
ListsOf(n, flat, own) ==
    [i \in 1..n |->
        LET pos == {p \in DOMAIN flat : own[p] = i}
        IN [q \in 1..Cardinality(pos) |-> flat[SetMin(pos) + q - 1]]]

\* The blocked_by lists that mirror the blocks lists: the record at i lists,
\* in input order, the id of every record that lists i's id in its blocks.
MirrorOf(ids, bl) ==
    [i \in DOMAIN ids |->
        LET from == {j \in DOMAIN ids : ids[i] \in Range(bl[j])}
        IN [k \in 1..Cardinality(from) |-> ids[SortedSeq(from)[k]]]]

\* Input arrays whose blocked_by lists vary (blocks empty, every status open).
InputsBlockedBy(bs) ==
    \E n \in 0..MaxBeads : \E ids \in IdSeqs(n, MaxBeads) :
      \E k \in 0..MaxRefs : \E flat \in [1..k -> RefIds] :
      \E own \in Owners(k, n) :
        LET ls == ListsOf(n, flat, own) IN
        /\ CanonicalRefs(ids, flat)
        /\ bs = [i \in 1..n |-> BeadNode(ids[i], "open", ls[i], <<>>)]

\* Input arrays whose blocks lists vary, with the blocked_by lists that mirror
\* them (every status open).
InputsBlocks(bs) ==
    \E n \in 0..MaxBeads : \E ids \in IdSeqs(n, MaxBeads) :
      \E k \in 0..MaxRefs : \E flat \in [1..k -> RefIds] :
      \E own \in Owners(k, n) :
        LET ls == ListsOf(n, flat, own)
            mirror == MirrorOf(ids, ls)
        IN /\ CanonicalRefs(ids, flat)
           /\ bs = [i \in 1..n |-> BeadNode(ids[i], "open", mirror[i], ls[i])]

\* The same, of fewer records.
InputsBlockedBySmall(bs) ==
    \E n \in 0..(MaxBeads - 1) : \E ids \in IdSeqs(n, MaxBeads - 1) :
      \E k \in 0..MaxRefs : \E flat \in [1..k -> RefIds] :
      \E own \in Owners(k, n) :
        LET ls == ListsOf(n, flat, own) IN
        /\ CanonicalRefs(ids, flat)
        /\ bs = [i \in 1..n |-> BeadNode(ids[i], "open", ls[i], <<>>)]

InputsBlocksSmall(bs) ==
    \E n \in 0..(MaxBeads - 1) : \E ids \in IdSeqs(n, MaxBeads - 1) :
      \E k \in 0..MaxRefs : \E flat \in [1..k -> RefIds] :
      \E own \in Owners(k, n) :
        LET ls == ListsOf(n, flat, own)
            mirror == MirrorOf(ids, ls)
        IN /\ CanonicalRefs(ids, flat)
           /\ bs = [i \in 1..n |-> BeadNode(ids[i], "open", mirror[i], ls[i])]

\* Smaller input arrays whose statuses and blocked_by lists vary.
InputsStatus(bs) ==
    \E n \in 0..(MaxBeads - 1) : \E ids \in IdSeqs(n, MaxBeads - 1) :
      \E k \in 0..(MaxRefs - 1) : \E flat \in [1..k -> RefIds] :
        \E own \in Owners(k, n) : \E st \in [1..n -> {"open", "closed"}] :
          LET ls == ListsOf(n, flat, own) IN
          /\ CanonicalRefs(ids, flat)
          /\ bs = [i \in 1..n |-> BeadNode(ids[i], st[i], ls[i], <<>>)]

(* ------------------------------------------------------------------ *)
(* build_graph and has_cycle                                           *)
(* ------------------------------------------------------------------ *)

\* node_map after the first loop of build_graph: every insert of an id
\* replaces the index stored for it, so the last record of an id wins.
node_map(beads) ==
    [x \in Ids(beads) |-> SetMax({i \in DOMAIN beads : beads[i].id = x})]

\* build_graph with the vertices and the edges added in one pass: a blocker is
\* looked up when only the records before it are in node_map.
build_graph_single_pass(beads) ==
    [nodes |-> DOMAIN beads,
     edges |-> UNION {{<<j, i>> : j \in {j \in 1..i :
                                         beads[j].id \in Range(beads[i].blocked_by)}}
                        : i \in DOMAIN beads}]

\* build_graph that keeps a blocker node_map does not know: the edge is drawn
\* from the record's own vertex.
build_graph_dangling_kept(beads) ==
    LET nm == node_map(beads) IN
    [nodes |-> DOMAIN beads,
     edges |-> UNION {{<<IF blocker \in DOMAIN nm THEN nm[blocker]
                                                 ELSE nm[beads[i].id],
                         nm[beads[i].id]>> :
                          blocker \in Range(beads[i].blocked_by)}
                        : i \in DOMAIN beads}]

\* The DiGraph of build_graph: one vertex per record (graph.add_node is called
\* for every record), and for every record and every blocker of it that
\* node_map knows, an edge from the blocker's vertex to the record's vertex,
\* both looked up in node_map.
build_graph(beads) ==
    LET nm == node_map(beads) IN
    [nodes |-> DOMAIN beads,
     edges |-> UNION {{<<nm[blocker], nm[beads[i].id]>> :
                          blocker \in Range(beads[i].blocked_by) \cap DOMAIN nm}
                        : i \in DOMAIN beads}]

Successors(graph, u) == {e[2] : e \in {e \in graph.edges : e[1] = u}}

\* petgraph's is_cyclic_directed: a depth first search from every vertex not
\* yet discovered, which reports a cycle at the first back edge (an edge to a
\* vertex that is discovered and not finished).
RECURSIVE dfs_visit(_, _, _), dfs_edges(_, _, _, _)
dfs_visit(graph, u, st) ==
    LET entered == [st EXCEPT !.discovered = @ \cup {u}]
        after == dfs_edges(graph, u, Successors(graph, u), entered)
    IN [after EXCEPT !.finished = @ \cup {u}]

\* The edge loop that takes every edge to a discovered vertex for a back edge,
\* finished or not.
RECURSIVE dfs_edges_finished_as_back(_, _, _, _)
dfs_edges_finished_as_back(graph, u, todo, st) ==
    IF todo = {} \/ st.back THEN st
    ELSE LET v == SetMin(todo) IN
         IF v \notin st.discovered
             THEN dfs_edges_finished_as_back(graph, u, todo \ {v},
                                             dfs_visit(graph, v, st))
         ELSE [st EXCEPT !.back = TRUE]

dfs_edges(graph, u, todo, st) ==
    IF todo = {} \/ st.back THEN st
    ELSE LET v == SetMin(todo) IN
         IF v \notin st.discovered
             THEN dfs_edges(graph, u, todo \ {v}, dfs_visit(graph, v, st))
         ELSE IF v \notin st.finished
             THEN [st EXCEPT !.back = TRUE]
         ELSE dfs_edges(graph, u, todo \ {v}, st)

RECURSIVE dfs_roots(_, _, _)
dfs_roots(graph, todo, st) ==
    IF todo = {} \/ st.back THEN st
    ELSE LET u == SetMin(todo) IN
         IF u \in st.discovered
             THEN dfs_roots(graph, todo \ {u}, st)
             ELSE dfs_roots(graph, todo \ {u}, dfs_visit(graph, u, st))

is_cyclic_directed(graph) ==
    dfs_roots(graph, graph.nodes,
              [discovered |-> {}, finished |-> {}, back |-> FALSE]).back

\* has_cycle_impl on a decoded array.
has_cycle_impl(beads) == is_cyclic_directed(build_graph(beads))

(* ------------------------------------------------------------------ *)
(* compute_levels_internal                                             *)
(* ------------------------------------------------------------------ *)

\* The ids, in input order, of the records at the positions idx.
IdsAt(beads, idx) == [k \in 1..Cardinality(idx) |-> beads[SortedSeq(idx)[k]].id]

\* insert(0, id) in the place of push(id).
levels_push_front(levels, level, id) ==
    IF level \in DOMAIN levels
        THEN [levels EXCEPT ![level] = <<id>> \o @]
        ELSE (level :> <<id>>) @@ levels

\* levels.entry(level).or_insert_with(Vec::new).push(id)
levels_push(levels, level, id) ==
    IF level \in DOMAIN levels
        THEN [levels EXCEPT ![level] = Append(@, id)]
        ELSE (level :> <<id>>) @@ levels

\* The state of compute_levels_internal before it is called.
LevelsIdle ==
    [pc |-> "idle", level_map |-> EmptyMap, levels |-> EmptyMap,
     queue |-> <<>>, id |-> "", current_level |-> 0, cursor |-> 0,
     enqueued |-> <<>>]

\* The seeding loop: every record with an empty blocked_by list is pushed on
\* the queue, entered in level_map at 0 and pushed on levels[0].
levels_seed(beads) ==
    LET seeds == IdsAt(beads, {i \in DOMAIN beads : beads[i].blocked_by = <<>>})
    IN [pc |-> "loop",
        level_map |-> [x \in Range(seeds) |-> 0],
        levels |-> IF seeds = <<>> THEN EmptyMap ELSE (0 :> seeds),
        queue |-> seeds, id |-> "", current_level |-> 0, cursor |-> 0,
        enqueued |-> seeds]

\* while let Some(id) = queue.pop_front(), and current_level.
levels_dequeue(st) ==
    LET id == Head(st.queue) IN
    [st EXCEPT !.queue = Tail(@), !.id = id,
               !.current_level = IF id \in DOMAIN st.level_map
                                     THEN st.level_map[id] ELSE 0,
               !.cursor = 1]

\* any() in the place of all().
any_dep_processed(bead, level_map) ==
    \E k \in DOMAIN bead.blocked_by : bead.blocked_by[k] \in DOMAIN level_map

all_deps_processed(bead, level_map) ==
    \A k \in DOMAIN bead.blocked_by : bead.blocked_by[k] \in DOMAIN level_map

\* min() in the place of max().
min_dep_level(bead, level_map) ==
    LET found == {level_map[bead.blocked_by[k]] :
                     k \in {k \in DOMAIN bead.blocked_by :
                               bead.blocked_by[k] \in DOMAIN level_map}}
    IN IF found = {} THEN 0 ELSE SetMin(found)

max_dep_level(bead, level_map) ==
    LET found == {level_map[bead.blocked_by[k]] :
                     k \in {k \in DOMAIN bead.blocked_by :
                               bead.blocked_by[k] \in DOMAIN level_map}}
    IN IF found = {} THEN 0 ELSE SetMax(found)

\* The new level without the + 1.
new_level_no_increment(bead, level_map) == max_dep_level(bead, level_map)

new_level(bead, level_map) == max_dep_level(bead, level_map) + 1

\* The test of the inner loop without !level_map.contains_key(&bead.id).
levels_assigns_again(bead, id, level_map) ==
    /\ id \in Range(bead.blocked_by)
    /\ all_deps_processed(bead, level_map)

\* Whether the inner loop assigns a level to bead while id is being processed.
levels_assigns(bead, id, level_map) ==
    /\ id \in Range(bead.blocked_by)
    /\ bead.id \notin DOMAIN level_map
    /\ all_deps_processed(bead, level_map)

\* One iteration of the inner loop, for the record at the cursor.
levels_scan(beads, st) ==
    LET bead == beads[st.cursor]
        next == [st EXCEPT !.cursor = @ + 1]
    IN IF levels_assigns(bead, st.id, st.level_map)
           THEN LET lvl == new_level(bead, st.level_map) IN
                [next EXCEPT !.level_map = MapInsert(@, bead.id, lvl),
                             !.levels = levels_push(@, lvl, bead.id),
                             !.queue = Append(@, bead.id),
                             !.enqueued = Append(@, bead.id)]
           ELSE next

\* The inner loop, over every record from the cursor on.
RECURSIVE levels_scan_all(_, _)
levels_scan_all(beads, st) ==
    IF st.cursor > Len(beads) THEN st
    ELSE levels_scan_all(beads, levels_scan(beads, st))

\* One iteration of the queue loop: an id is taken off the queue and every
\* record is scanned for it.
levels_iteration(beads, st) == levels_scan_all(beads, levels_dequeue(st))

\* The queue is empty: the function returns levels.
levels_return(st) == [st EXCEPT !.pc = "done"]

\* One step of compute_levels_internal.
levels_step(beads, st) ==
    CASE st.pc = "idle" -> levels_seed(beads)
      [] st.pc = "loop" /\ st.queue # <<>> -> levels_iteration(beads, st)
      [] st.pc = "loop" /\ st.queue = <<>> -> levels_return(st)
      [] OTHER -> st

\* compute_levels_internal run to its return.
RECURSIVE levels_run(_, _)
levels_run(beads, st) ==
    IF st.pc = "done" THEN st ELSE levels_run(beads, levels_step(beads, st))

compute_levels_internal(beads) == levels_run(beads, LevelsIdle).levels

(* ------------------------------------------------------------------ *)
(* find_cycle_nodes_internal (Tarjan)                                  *)
(* ------------------------------------------------------------------ *)

\* Option<usize>::None in indices.
None == -1

\* Vertices are the positions of the records, counted from 0 as in the code.
Vertices(beads) == 0..(Len(beads) - 1)

\* id_to_index: every insert of an id replaces the index stored for it.
id_to_index(beads) ==
    [x \in Ids(beads) |-> SetMax({i \in DOMAIN beads : beads[i].id = x}) - 1]

\* index_to_id: one entry per position.
index_to_id(beads) == [v \in Vertices(beads) |-> beads[v + 1].id]

\* The ids of blocks that id_to_index knows, as indices, in list order.
known_targets(blocks, i2i) ==
    LET pos == {k \in DOMAIN blocks : blocks[k] \in DOMAIN i2i}
    IN [q \in 1..Cardinality(pos) |-> i2i[blocks[SortedSeq(pos)[q]]]]

\* adj: the edges of every record are pushed, in input order, on the list of
\* the index that id_to_index holds for the record's id.
RECURSIVE adj_fold(_, _, _, _)
adj_fold(beads, i2i, i, adj) ==
    IF i > Len(beads) THEN adj
    ELSE LET from_idx == i2i[beads[i].id] IN
         adj_fold(beads, i2i, i + 1,
                  [adj EXCEPT ![from_idx] = @ \o known_targets(beads[i].blocks, i2i)])

build_adj(beads) ==
    adj_fold(beads, id_to_index(beads), 1, [v \in Vertices(beads) |-> <<>>])

\* The state of find_cycle_nodes_internal before it is called.
TarjanIdle ==
    [pc |-> "idle", adj |-> <<>>, index |-> 0, indices |-> <<>>,
     lowlinks |-> <<>>, on_stack |-> <<>>, stack |-> <<>>, sccs |-> <<>>,
     frames |-> <<>>, v |-> 0, cycle_nodes |-> <<>>]

\* The index maps, adj and the initial values of Tarjan's variables.
tarjan_init(beads) ==
    [pc |-> "outer", adj |-> build_adj(beads), index |-> 0,
     indices |-> [v \in Vertices(beads) |-> None],
     lowlinks |-> [v \in Vertices(beads) |-> 0],
     on_stack |-> [v \in Vertices(beads) |-> FALSE],
     stack |-> <<>>, sccs |-> <<>>, frames |-> <<>>, v |-> 0,
     cycle_nodes |-> <<>>]

\* The entry of strongconnect(v): v gets the next index, and is pushed on the
\* stack. The new frame holds v and the position of the edge loop in adj[v].
strongconnect_enter(st, v) ==
    [st EXCEPT !.indices[v] = st.index,
               !.lowlinks[v] = st.index,
               !.index = @ + 1,
               !.stack = Append(@, v),
               !.on_stack[v] = TRUE,
               !.frames = Append(@, [v |-> v, i |-> 1]),
               !.pc = "visit"]

\* The outer loop that starts a traversal from the first vertex only.
tarjan_outer_first_only(st) ==
    LET next == [st EXCEPT !.v = @ + 1] IN
    IF st.v = 0 /\ st.indices[st.v] = None
        THEN strongconnect_enter(next, st.v) ELSE next

\* One iteration of for v in 0..n: strongconnect(v) is called when v has no
\* index yet.
tarjan_outer(st) ==
    LET next == [st EXCEPT !.v = @ + 1] IN
    IF st.indices[st.v] = None THEN strongconnect_enter(next, st.v) ELSE next

\* strongconnect's edge loop without the on_stack test: the lowlink is lowered
\* by every vertex that has an index.
strongconnect_edge_no_stack_test(st) ==
    LET top == Len(st.frames)
        v == st.frames[top].v
        w == st.adj[v][st.frames[top].i]
    IN IF st.indices[w] = None
           THEN strongconnect_enter(st, w)
       ELSE [st EXCEPT !.lowlinks[v] = Min2(@, st.indices[w]),
                       !.frames[top].i = @ + 1]

\* One iteration of the edge loop of the running strongconnect(v), for
\* w = adj[v][i]: a recursive call when w has no index, a lowlink update when w
\* is on the stack.
strongconnect_edge(st) ==
    LET top == Len(st.frames)
        v == st.frames[top].v
        w == st.adj[v][st.frames[top].i]
    IN IF st.indices[w] = None
           THEN strongconnect_enter(st, w)
       ELSE IF st.on_stack[w]
           THEN [st EXCEPT !.lowlinks[v] = Min2(@, st.indices[w]),
                           !.frames[top].i = @ + 1]
       ELSE [st EXCEPT !.frames[top].i = @ + 1]

\* Every vertex closes a component when its strongconnect ends.
closes_component_always(st, v) == TRUE

\* Whether strongconnect(v) closes a component.
closes_component(st, v) == st.lowlinks[v] = st.indices[v]

\* The pop loop without on_stack[w] = false.
pop_component_flags_kept(st, v) ==
    LET at == CHOOSE p \in DOMAIN st.stack :
                  st.stack[p] = v /\ \A q \in DOMAIN st.stack : q > p => st.stack[q] # v
        n == Len(st.stack)
        scc == [q \in 1..(n - at + 1) |-> st.stack[n - q + 1]]
    IN [st EXCEPT !.stack = SubSeq(@, 1, at - 1),
                  !.sccs = Append(@, scc)]

\* The pop loop: the stack is popped down to and including v, every popped
\* vertex leaves on_stack, and the popped vertices are pushed as one component.
pop_component(st, v) ==
    LET at == CHOOSE p \in DOMAIN st.stack :
                  st.stack[p] = v /\ \A q \in DOMAIN st.stack : q > p => st.stack[q] # v
        n == Len(st.stack)
        scc == [q \in 1..(n - at + 1) |-> st.stack[n - q + 1]]
    IN [st EXCEPT !.stack = SubSeq(@, 1, at - 1),
                  !.on_stack = [u \in DOMAIN @ |-> IF u \in Range(scc) THEN FALSE ELSE @[u]],
                  !.sccs = Append(@, scc)]

\* The end of strongconnect(v): the component is closed when the lowlink of v
\* is its index; back in the caller, the lowlink of the caller's vertex takes
\* the minimum with v's, and the caller's edge loop moves on.
strongconnect_return(st) ==
    LET top == Len(st.frames)
        v == st.frames[top].v
        closed == IF closes_component(st, v) THEN pop_component(st, v) ELSE st
        popped == [closed EXCEPT !.frames = SubSeq(@, 1, top - 1)]
    IN IF top = 1
           THEN [popped EXCEPT !.pc = "outer"]
           ELSE LET u == st.frames[top - 1].v IN
                [popped EXCEPT !.lowlinks[u] = Min2(@, closed.lowlinks[v]),
                               !.frames[top - 1].i = @ + 1]

\* scc.len() >= 1 in the place of scc.len() > 1.
is_cycle_component_any(scc) == Len(scc) >= 1

\* if scc.len() > 1
is_cycle_component(scc) == Len(scc) > 1

\* The ids of the components of more than one vertex, in the order of sccs.
RECURSIVE collect_cycle_nodes(_, _, _)
collect_cycle_nodes(sccs, i2id, k) ==
    IF k > Len(sccs) THEN <<>>
    ELSE (IF is_cycle_component(sccs[k])
              THEN [q \in 1..Len(sccs[k]) |-> i2id[sccs[k][q]]]
              ELSE <<>>)
         \o collect_cycle_nodes(sccs, i2id, k + 1)

tarjan_collect(beads, st) ==
    [st EXCEPT !.cycle_nodes = collect_cycle_nodes(st.sccs, index_to_id(beads), 1),
               !.pc = "done"]

\* One step of find_cycle_nodes_internal.
tarjan_step(beads, st) ==
    CASE st.pc = "idle" -> tarjan_init(beads)
      [] st.pc = "outer" /\ st.v < Len(beads) -> tarjan_outer(st)
      [] st.pc = "outer" /\ st.v = Len(beads) -> tarjan_collect(beads, st)
      [] st.pc = "visit" /\ st.frames[Len(st.frames)].i
                              <= Len(st.adj[st.frames[Len(st.frames)].v])
            -> strongconnect_edge(st)
      [] st.pc = "visit" /\ st.frames[Len(st.frames)].i
                              > Len(st.adj[st.frames[Len(st.frames)].v])
            -> strongconnect_return(st)
      [] OTHER -> st

RECURSIVE tarjan_run(_, _)
tarjan_run(beads, st) ==
    IF st.pc = "done" THEN st ELSE tarjan_run(beads, tarjan_step(beads, st))

find_cycle_nodes_internal(beads) == tarjan_run(beads, TarjanIdle).cycle_nodes

(* ------------------------------------------------------------------ *)
(* build_adjacency and get_ready_beads                                 *)
(* ------------------------------------------------------------------ *)

\* build_adjacency without the entry made for the record itself.
adjacency_entry_skipped(adjacency, id) == adjacency

\* adjacency.entry(id).or_insert_with(Vec::new), for the record itself.
adjacency_entry(adjacency, id) ==
    IF id \in DOMAIN adjacency THEN adjacency ELSE (id :> <<>>) @@ adjacency

\* adjacency.entry(id).or_insert_with(Vec::new).push(blocked), for every
\* blocked of blocks.
adjacency_push(adjacency, id, blocks) ==
    IF blocks = <<>> THEN adjacency
    ELSE IF id \in DOMAIN adjacency
        THEN [adjacency EXCEPT ![id] = @ \o blocks]
        ELSE (id :> blocks) @@ adjacency

RECURSIVE adjacency_fold(_, _, _)
adjacency_fold(beads, i, adjacency) ==
    IF i > Len(beads) THEN adjacency
    ELSE adjacency_fold(beads, i + 1,
             adjacency_push(adjacency_entry(adjacency, beads[i].id),
                            beads[i].id, beads[i].blocks))

\* The map build_adjacency_impl serializes.
build_adjacency(beads) == adjacency_fold(beads, 1, EmptyMap)

\* The set of closed beads.
closed_ids(beads) == {beads[i].id : i \in {i \in DOMAIN beads : beads[i].status = "closed"}}

\* any() in the place of all().
blockers_closed_any(bead, closed) ==
    \/ bead.blocked_by = <<>>
    \/ \E k \in DOMAIN bead.blocked_by : bead.blocked_by[k] \in closed

\* Whether every blocker of bead is in closed.
blockers_closed(bead, closed) ==
    \A k \in DOMAIN bead.blocked_by : bead.blocked_by[k] \in closed

\* The vector get_ready_beads_impl serializes.
get_ready_beads(beads) ==
    LET closed == closed_ids(beads) IN
    IdsAt(beads, {i \in DOMAIN beads :
                     /\ beads[i].status # "closed"
                     /\ blockers_closed(beads[i], closed)})

(* ------------------------------------------------------------------ *)
(* The exported operations                                             *)
(* ------------------------------------------------------------------ *)

\* Result::Ok
Ok(value) == [ok |-> TRUE, value |-> value]

\* The orders in which the entries of a HashMap can be iterated: the order
\* depends on the hasher's keys, which differ from one HashMap to the next, so
\* that every order of the keys is possible.
KeyOrders(m) ==
    {order \in [1..Cardinality(DOMAIN m) -> DOMAIN m] :
        \A i, j \in DOMAIN order : order[i] = order[j] => i = j}

\* serde_json::to_string of a map: its entries, in the order of iteration.
map_to_string(m, order) == [k \in DOMAIN order |-> <<order[k], m[order[k]]>>]

\* serde_json::to_string of a vector: its elements in order.
vec_to_string(v) == v

Ops == {"has_cycle", "find_cycle_nodes", "build_adjacency", "get_ready_beads",
        "compute_levels"}

\* No call is being made.
NoCall == [op |-> "none", returned |-> FALSE, out |-> Ok(<<>>)]

(* ------------------------------------------------------------------ *)
(* State                                                               *)
(* ------------------------------------------------------------------ *)

VARIABLES
    beads,  \* the decoded input array
    call,   \* the exported operation called on beads, and what it returned
    lv,     \* the state of compute_levels_internal
    tj      \* the state of find_cycle_nodes_internal

vars == <<beads, call, lv, tj>>

(* ------------------------------------------------------------------ *)
(* Calls of the exported operations                                    *)
(* ------------------------------------------------------------------ *)

\* The input arrays on which op is called.
InputsOf(op, bs) ==
    CASE op = "has_cycle" -> InputsBlockedBy(bs)
      [] op = "get_ready_beads" -> InputsStatus(bs)
      [] op = "compute_levels" -> InputsBlockedBySmall(bs)
      [] OTHER -> InputsBlocksSmall(bs)

Init ==
    /\ \E op \in Ops :
        /\ call = [op |-> op, returned |-> FALSE, out |-> Ok(<<>>)]
        /\ InputsOf(op, beads)
    /\ lv = LevelsIdle
    /\ tj = TarjanIdle

\* What a call of op on bs can return: the serialized result, for every order
\* in which a HashMap result can be iterated.
Outputs(op, bs) ==
    CASE op = "has_cycle" -> {Ok(has_cycle_impl(bs))}
      [] op = "find_cycle_nodes" ->
            {Ok(vec_to_string(find_cycle_nodes_internal(bs)))}
      [] op = "build_adjacency" ->
            LET adjacency == build_adjacency(bs) IN
            {Ok(map_to_string(adjacency, order)) : order \in KeyOrders(adjacency)}
      [] op = "get_ready_beads" -> {Ok(vec_to_string(get_ready_beads(bs)))}
      [] op = "compute_levels" ->
            LET levels == compute_levels_internal(bs) IN
            {Ok(map_to_string(levels, order)) : order \in KeyOrders(levels)}

Return(out) ==
    /\ call' = [call EXCEPT !.returned = TRUE, !.out = out]
    /\ UNCHANGED <<beads, lv, tj>>

\* One call of each exported operation on beads.
HasCycle ==
    /\ call.op = "has_cycle"
    /\ ~call.returned
    /\ \E out \in Outputs("has_cycle", beads) : Return(out)

FindCycleNodes ==
    /\ call.op = "find_cycle_nodes"
    /\ ~call.returned
    /\ \E out \in Outputs("find_cycle_nodes", beads) : Return(out)

BuildAdjacency ==
    /\ call.op = "build_adjacency"
    /\ ~call.returned
    /\ \E out \in Outputs("build_adjacency", beads) : Return(out)

GetReadyBeads ==
    /\ call.op = "get_ready_beads"
    /\ ~call.returned
    /\ \E out \in Outputs("get_ready_beads", beads) : Return(out)

ComputeLevels ==
    /\ call.op = "compute_levels"
    /\ ~call.returned
    /\ \E out \in Outputs("compute_levels", beads) : Return(out)

Next ==
    HasCycle \/ FindCycleNodes \/ BuildAdjacency \/ GetReadyBeads \/ ComputeLevels

Spec == Init /\ [][Next]_vars

(* ------------------------------------------------------------------ *)
(* The same operation called again on the same input array             *)
(* ------------------------------------------------------------------ *)

\* The operation that has returned is called once more on beads; the call
\* builds its HashMap anew.
Rerun ==
    /\ call.returned
    /\ \E out \in Outputs(call.op, beads) : Return(out)

NextRerun == Next \/ Rerun

SpecRerun == Init /\ [][NextRerun]_vars

(* ------------------------------------------------------------------ *)
(* compute_levels, step by step                                        *)
(* ------------------------------------------------------------------ *)

InitLevels ==
    /\ InputsBlockedBy(beads)
    /\ call = NoCall
    /\ lv = LevelsIdle
    /\ tj = TarjanIdle

LevelsSeed ==
    /\ lv.pc = "idle"
    /\ lv' = levels_seed(beads)
    /\ UNCHANGED <<beads, call, tj>>

LevelsIteration ==
    /\ lv.pc = "loop"
    /\ lv.queue # <<>>
    /\ lv' = levels_iteration(beads, lv)
    /\ UNCHANGED <<beads, call, tj>>

LevelsReturn ==
    /\ lv.pc = "loop"
    /\ lv.queue = <<>>
    /\ lv' = levels_return(lv)
    /\ UNCHANGED <<beads, call, tj>>

NextLevels == LevelsSeed \/ LevelsIteration \/ LevelsReturn

SpecLevels == InitLevels /\ [][NextLevels]_vars

\* compute_levels_internal is sequential code that runs until it returns: a
\* step that can be taken is taken.
SpecLevelsFair == SpecLevels /\ WF_vars(NextLevels)

(* ------------------------------------------------------------------ *)
(* find_cycle_nodes, step by step                                      *)
(* ------------------------------------------------------------------ *)

InitTarjan ==
    /\ InputsBlocks(beads)
    /\ call = NoCall
    /\ lv = LevelsIdle
    /\ tj = TarjanIdle

TopFrame == tj.frames[Len(tj.frames)]

TarjanStart ==
    /\ tj.pc = "idle"
    /\ tj' = tarjan_init(beads)
    /\ UNCHANGED <<beads, call, lv>>

TarjanOuter ==
    /\ tj.pc = "outer"
    /\ tj.v < Len(beads)
    /\ tj' = tarjan_outer(tj)
    /\ UNCHANGED <<beads, call, lv>>

StrongconnectEdge ==
    /\ tj.pc = "visit"
    /\ TopFrame.i <= Len(tj.adj[TopFrame.v])
    /\ tj' = strongconnect_edge(tj)
    /\ UNCHANGED <<beads, call, lv>>

StrongconnectReturn ==
    /\ tj.pc = "visit"
    /\ TopFrame.i > Len(tj.adj[TopFrame.v])
    /\ tj' = strongconnect_return(tj)
    /\ UNCHANGED <<beads, call, lv>>

TarjanCollect ==
    /\ tj.pc = "outer"
    /\ tj.v = Len(beads)
    /\ tj' = tarjan_collect(beads, tj)
    /\ UNCHANGED <<beads, call, lv>>

NextTarjan ==
    TarjanStart \/ TarjanOuter \/ StrongconnectEdge \/ StrongconnectReturn
        \/ TarjanCollect

SpecTarjan == InitTarjan /\ [][NextTarjan]_vars

(* ------------------------------------------------------------------ *)
(* The cycle operations called on the records in another order         *)
(* ------------------------------------------------------------------ *)

\* What the two cycle operations return on bs.
cycle_detector(bs) ==
    [has_cycle |-> has_cycle_impl(bs),
     cycle_nodes |-> find_cycle_nodes_internal(bs)]

\* The records of bs in the order p.
Permuted(bs, p) == [i \in DOMAIN bs |-> bs[p[i]]]

InitPermute ==
    /\ InputsBlocksSmall(beads)
    /\ call = [op |-> "cycle_detector", returned |-> FALSE, out |-> Ok(<<>>)]
    /\ lv = LevelsIdle
    /\ tj = TarjanIdle

\* has_cycle and find_cycle_nodes are called on beads.
DetectCycles ==
    /\ ~call.returned
    /\ Return(Ok(cycle_detector(beads)))

\* The caller passes the same records in another order to both operations.
Reorder ==
    /\ call.returned
    /\ \E p \in Perms(Len(beads)) :
          /\ beads' = Permuted(beads, p)
          /\ beads' # beads
          /\ call' = [call EXCEPT !.out = Ok(cycle_detector(beads'))]
    /\ UNCHANGED <<lv, tj>>

NextPermute == DetectCycles \/ Reorder

SpecPermute == InitPermute /\ [][NextPermute]_vars

(* ------------------------------------------------------------------ *)
(* Decoding of the input text                                          *)
(* ------------------------------------------------------------------ *)

\* Result::Err
Err(error) == [ok |-> FALSE, error |-> error]

\* Causes serde_json gives for a text it cannot decode (a sample).
Causes == {"expected value", "missing field id", "invalid type"}

\* The input texts: one that decodes, and one for every cause of failure.
Texts == {[decodes |-> TRUE, cause |-> ""]}
             \cup {[decodes |-> FALSE, cause |-> c] : c \in Causes}

\* The decoder that falls back on the empty array.
from_str_or_default(text, bs) == Ok(IF text.decodes THEN bs ELSE <<>>)

\* serde_json::from_str::<Vec<BeadNode>>(beads_json): the array bs that the
\* text holds, or the error of the decoder.
from_str(text, bs) == IF text.decodes THEN Ok(bs) ELSE Err(text.cause)

\* format!("Parse error: {}", e)
parse_error(e) == <<"Parse error: ", e>>

\* What op can return on a text: map_err(..)? returns the parse error before
\* anything is computed; otherwise the operation runs on the decoded array.
impl_outputs(op, text, bs) ==
    LET decoded == from_str(text, bs) IN
    IF decoded.ok THEN Outputs(op, decoded.value)
                  ELSE {Err(parse_error(decoded.error))}

InitDecode ==
    /\ \E op \in Ops : \E text \in Texts :
        /\ call = [op |-> op, returned |-> FALSE, out |-> Ok(<<>>), text |-> text]
        /\ IF text.decodes THEN InputsOf(op, beads) ELSE beads = <<>>
    /\ lv = LevelsIdle
    /\ tj = TarjanIdle

HasCycleImpl ==
    /\ call.op = "has_cycle"
    /\ ~call.returned
    /\ \E out \in impl_outputs("has_cycle", call.text, beads) : Return(out)

FindCycleNodesImpl ==
    /\ call.op = "find_cycle_nodes"
    /\ ~call.returned
    /\ \E out \in impl_outputs("find_cycle_nodes", call.text, beads) : Return(out)

BuildAdjacencyImpl ==
    /\ call.op = "build_adjacency"
    /\ ~call.returned
    /\ \E out \in impl_outputs("build_adjacency", call.text, beads) : Return(out)

GetReadyBeadsImpl ==
    /\ call.op = "get_ready_beads"
    /\ ~call.returned
    /\ \E out \in impl_outputs("get_ready_beads", call.text, beads) : Return(out)

ComputeLevelsImpl ==
    /\ call.op = "compute_levels"
    /\ ~call.returned
    /\ \E out \in impl_outputs("compute_levels", call.text, beads) : Return(out)

NextDecode ==
    \/ HasCycleImpl
    \/ FindCycleNodesImpl
    \/ BuildAdjacencyImpl
    \/ GetReadyBeadsImpl
    \/ ComputeLevelsImpl

SpecDecode == InitDecode /\ [][NextDecode]_vars

(* ------------------------------------------------------------------ *)
(* Graphs the claims speak of                                          *)
(* ------------------------------------------------------------------ *)

\* The transitive closure of a relation, given as a set of pairs.
RECURSIVE Closure(_)
Closure(R) ==
    LET joined == R \cup UNION {{<<p[1], q[2]>> : q \in {q \in R : q[1] = p[2]}}
                                  : p \in R}
    IN IF joined = R THEN R ELSE Closure(joined)

\* Whether the graph of the edges E has a directed cycle.
HasDirectedCycle(E) == \E e \in Closure(E) : e[1] = e[2]

\* One vertex per record; an edge blocker -> record for every blocked_by id of
\* the record that is the id of a record.
BlockerEdges(bs) ==
    {e \in (DOMAIN bs) \X (DOMAIN bs) : bs[e[1]].id \in Range(bs[e[2]].blocked_by)}

\* The same edges between ids.
BlockedByIdEdges(bs) ==
    {e \in Ids(bs) \X Ids(bs) :
        \E i \in DOMAIN bs : bs[i].id = e[2] /\ e[1] \in Range(bs[i].blocked_by)}

\* An edge from the id of each record to every known id of its blocks list.
BlocksIdEdges(bs) ==
    {e \in Ids(bs) \X Ids(bs) :
        \E i \in DOMAIN bs : bs[i].id = e[1] /\ e[2] \in Range(bs[i].blocks)}

\* The ids in a strongly connected component of at least two vertices.
InLargeComponent(bs) ==
    LET reach == Closure(BlocksIdEdges(bs)) IN
    {x \in Ids(bs) : \E y \in Ids(bs) \ {x} : <<x, y>> \in reach /\ <<y, x>> \in reach}

\* Y is in X.blocks exactly when X is in Y.blocked_by.
Consistent(bs) ==
    \A i, j \in DOMAIN bs :
        bs[j].id \in Range(bs[i].blocks) <=> bs[i].id \in Range(bs[j].blocked_by)

(* ------------------------------------------------------------------ *)
(* The output of levels, as the claims read it                         *)
(* ------------------------------------------------------------------ *)

\* The ids that appear in some level's list.
Placed(levels) == UNION {Range(levels[L]) : L \in DOMAIN levels}

\* The levels in whose list x appears.
LevelsOf(levels, x) == {L \in DOMAIN levels : x \in Range(levels[L])}

\* How many times x appears in the lists.
Occurrences(levels, x) ==
    Cardinality(UNION {{<<L, p>> : p \in {p \in DOMAIN levels[L] : levels[L][p] = x}}
                          : L \in DOMAIN levels})

\* The records whose blockers can all be resolved: the least set that holds
\* every record all of whose blocked_by ids are ids of records of the set.
RECURSIVE ResolvedFrom(_, _)
ResolvedFrom(bs, R) ==
    LET more == R \cup {i \in DOMAIN bs :
                           \A x \in Range(bs[i].blocked_by) :
                               \E j \in R : bs[j].id = x}
    IN IF more = R THEN R ELSE ResolvedFrom(bs, more)

Resolved(bs) == ResolvedFrom(bs, {})

\* A list is in input order: it lists the ids of some records as they come
\* in the input array.
InInputOrder(bs, list) == \E idx \in SUBSET DOMAIN bs : list = IdsAt(bs, idx)

\* Level 0 for an empty blocked_by list, and for every other node that
\* appears, one more than the highest level of its blockers.
LevelRule(bs, levels) ==
    \A i \in DOMAIN bs :
        LET x == bs[i].id
            by == Range(bs[i].blocked_by)
        IN IF by = {} THEN LevelsOf(levels, x) = {0}
           ELSE x \in Placed(levels) =>
                  /\ by \subseteq Placed(levels)
                  /\ LevelsOf(levels, x) =
                        {1 + SetMax(UNION {LevelsOf(levels, b) : b \in by})}

\* Every blocker of a node with a level has a strictly lower level.
StrictlyLower(bs, level_map) ==
    \A i \in DOMAIN bs :
        bs[i].id \in DOMAIN level_map =>
            \A b \in Range(bs[i].blocked_by) :
                b \in DOMAIN level_map /\ level_map[b] < level_map[bs[i].id]

\* The same, read off the lists of the output.
StrictlyLowerOutput(bs, levels) ==
    \A i \in DOMAIN bs : \A L \in LevelsOf(levels, bs[i].id) :
        \A b \in Range(bs[i].blocked_by) :
            /\ LevelsOf(levels, b) # {}
            /\ \A Lb \in LevelsOf(levels, b) : Lb < L

(* ------------------------------------------------------------------ *)
(* Claims                                                              *)
(* ------------------------------------------------------------------ *)

HasCycleReturned == call.op = "has_cycle" /\ call.returned

\* C1: has_cycle returns true iff the graph with one vertex per input node and
\* an edge blocker -> node for every blocked_by id that is the id of an input
\* node has a directed cycle.
C1_HasCycleIffDirectedCycle ==
    HasCycleReturned => call.out = Ok(HasDirectedCycle(BlockerEdges(beads)))

\* has_cycle has returned true for three nodes of distinct ids none of which
\* lists itself.
C1_Witness ==
    /\ HasCycleReturned
    /\ call.out = Ok(TRUE)
    /\ Len(beads) = 3
    /\ UniqueIds(beads)
    /\ \A i \in DOMAIN beads : beads[i].id \notin Range(beads[i].blocked_by)

\* C2: for unique ids, cycle_participants returns, as a set, exactly the ids
\* of the nodes in a strongly connected component of at least two nodes of
\* the graph with an edge from each node to every known id of its blocks.
C2_ParticipantsAreLargeComponents ==
    (tj.pc = "done" /\ UniqueIds(beads)) =>
        Range(tj.cycle_nodes) = InLargeComponent(beads)

\* The traversal has ended on four nodes of distinct ids, two of them in a
\* component and one outside it with an edge into it.
C2_Witness ==
    /\ tj.pc = "done"
    /\ UniqueIds(beads)
    /\ Len(beads) = 4
    /\ Cardinality(Range(tj.cycle_nodes)) = 2
    /\ \E i \in DOMAIN beads :
          /\ beads[i].id \notin Range(tj.cycle_nodes)
          /\ Range(beads[i].blocks) \cap Range(tj.cycle_nodes) # {}

Dangling(bs, i) == Range(bs[i].blocked_by) \ Ids(bs)

\* The records that cannot be resolved for a reason of their own: they list
\* themselves, list an id no record has, or lie on a blocked_by cycle.
Unresolvable(bs) ==
    LET reach == Closure(BlockedByIdEdges(bs)) IN
    {i \in DOMAIN bs :
        \/ bs[i].id \in Range(bs[i].blocked_by)
        \/ Dangling(bs, i) # {}
        \/ <<bs[i].id, bs[i].id>> \in reach}

\* The records that depend, through blocked_by lists, on an unresolvable one.
DependsOnUnresolvable(bs) ==
    LET reach == Closure(BlockedByIdEdges(bs))
        bad == {bs[j].id : j \in Unresolvable(bs)}
    IN {i \in DOMAIN bs : \E y \in bad : <<y, bs[i].id>> \in reach}

\* C4: for unique ids, a node appears in the output of levels, exactly once,
\* iff all its blockers can be resolved (its blocked_by list is empty or every
\* id in it is an input node that appears); a node that lists itself, lists an
\* absent id, lies on a cycle or depends on such a node appears nowhere; and
\* the run is never stopped short of its return: until it returns, the seeding
\* loop, an iteration of the queue loop or the return can be taken.
C4_PlacedIffResolved ==
    /\ lv.pc # "done" =>
          \/ lv.pc = "idle"
          \/ lv.pc = "loop" /\ lv.queue \in Seq(Ids(beads))
    /\ (lv.pc = "done" /\ UniqueIds(beads)) =>
          LET placed == Placed(lv.levels)
              resolved == Resolved(beads)
              never == Unresolvable(beads) \cup DependsOnUnresolvable(beads)
          IN \A i \in DOMAIN beads :
              LET x == beads[i].id
                  by == Range(beads[i].blocked_by)
              IN /\ Occurrences(lv.levels, x) = IF i \in resolved THEN 1 ELSE 0
                 /\ x \in placed <=> (by = {} \/ by \subseteq (Ids(beads) \cap placed))
                 /\ i \in never => x \notin placed

\* levels has returned, for distinct ids, with a node at level 1, a node left
\* out for an absent blocker and a node left out because it depends on that one.
C4_Witness ==
    /\ lv.pc = "done"
    /\ UniqueIds(beads)
    /\ 1 \in DOMAIN lv.levels
    /\ \E i, j \in DOMAIN beads :
          /\ Dangling(beads, i) # {}
          /\ beads[i].id \in Range(beads[j].blocked_by)
          /\ Dangling(beads, j) = {}
          /\ beads[j].id \notin Placed(lv.levels)

EnqueuedAt(L) ==
    LET AtL(x) == lv.level_map[x] = L IN SelectSeq(lv.enqueued, AtL)

ListsMatchLevelMap ==
    /\ Placed(lv.levels) = DOMAIN lv.level_map
    /\ \A x \in DOMAIN lv.level_map : LevelsOf(lv.levels, x) = {lv.level_map[x]}

\* C6, as stated: at every step of the queue loop and in the final output,
\* every node with a level has all its blocked_by ids at strictly lower levels.
C6_BlockersStrictlyLowerAnyIds ==
    /\ StrictlyLower(beads, lv.level_map)
    /\ StrictlyLowerOutput(beads, lv.levels)

\* C6, amended: the same, for input arrays whose ids are unique.
C6_BlockersStrictlyLowerUniqueIds ==
    UniqueIds(beads) =>
        /\ StrictlyLower(beads, lv.level_map)
        /\ StrictlyLowerOutput(beads, lv.levels)
        /\ ListsMatchLevelMap

\* The queue loop is running, for distinct ids, with a node at level 2 and an
\* id still on the queue.
C6_Witness ==
    /\ lv.pc = "loop"
    /\ lv.queue # <<>>
    /\ UniqueIds(beads)
    /\ \E x \in DOMAIN lv.level_map : lv.level_map[x] = 2

ReadyReturned == call.op = "get_ready_beads" /\ call.returned

\* Whether the record at i is ready: not closed, and every blocked_by id is the
\* id of a closed record.
IsReady(bs, i) ==
    /\ bs[i].status # "closed"
    /\ \A x \in Range(bs[i].blocked_by) :
          \E j \in DOMAIN bs : bs[j].id = x /\ bs[j].status = "closed"

\* C7: ready_nodes returns, in input order, exactly the ids of the nodes that
\* are not closed and whose every blocked_by id is the id of a closed node.
C7_ReadyNodes ==
    ReadyReturned =>
        call.out = Ok(IdsAt(beads, {i \in DOMAIN beads : IsReady(beads, i)}))

\* ready_nodes has returned one node, behind a closed blocker, and left out an
\* open node whose blocker no record has.
C7_Witness ==
    /\ ReadyReturned
    /\ Len(call.out.value) = 1
    /\ \E i, j \in DOMAIN beads :
          /\ beads[i].status = "open"
          /\ beads[i].blocked_by # <<>>
          /\ beads[i].id \in Range(call.out.value)
          /\ beads[j].status = "open"
          /\ Range(beads[j].blocked_by) \cap Ids(beads) = {}
          /\ beads[j].blocked_by # <<>>

AdjacencyReturned == call.op = "build_adjacency" /\ call.returned

\* C8: for unique ids, the mapping of adjacency has one entry per input node
\* id and no other key, and the value of each entry is the node's blocks list
\* in its declared order.
C8_AdjacencyEntries ==
    (AdjacencyReturned /\ UniqueIds(beads)) =>
        LET entries == call.out.value IN
        /\ Len(entries) = Len(beads)
        /\ {entries[k][1] : k \in DOMAIN entries} = Ids(beads)
        /\ \A k \in DOMAIN entries : \A i \in DOMAIN beads :
              beads[i].id = entries[k][1] => entries[k][2] = beads[i].blocks

\* adjacency has returned, for distinct ids, with a node that blocks nothing,
\* a blocks list of two ids and an id in it that no record has.
C8_Witness ==
    /\ AdjacencyReturned
    /\ UniqueIds(beads)
    /\ \E i, j \in DOMAIN beads :
          /\ beads[i].blocks = <<>>
          /\ Len(beads[j].blocks) = 2
          /\ Range(beads[j].blocks) \ Ids(beads) # {}

\* C9: running an operation again on the same input array gives the same
\* serialized output.
C9_RerunSameOutput ==
    [][(call.returned /\ call'.returned) => call'.out = call.out]_vars

\* C10: for an acyclic node set with consistent blocked_by and blocks fields,
\* has_cycle returns false and cycle_participants returns nothing.
C10_AcyclicHasNoCycle ==
    (/\ tj.pc = "done"
     /\ Consistent(beads)
     /\ ~HasDirectedCycle(BlockedByIdEdges(beads) \cup BlocksIdEdges(beads)))
        => /\ ~has_cycle_impl(beads)
           /\ tj.cycle_nodes = <<>>

\* The traversal has ended on a consistent acyclic input of three edges.
C10_Witness ==
    /\ tj.pc = "done"
    /\ Consistent(beads)
    /\ ~HasDirectedCycle(BlockedByIdEdges(beads) \cup BlocksIdEdges(beads))
    /\ Cardinality(BlocksIdEdges(beads)) = 3
    /\ ~has_cycle_impl(beads)
    /\ tj.cycle_nodes = <<>>

\* The three records form the 3-cycle: each blocks the next and is blocked by
\* the one before.
ThreeCycle(bs) ==
    /\ Len(bs) = 3
    /\ UniqueIds(bs)
    /\ \E p \in Perms(3) :
          \A k \in 1..3 :
              LET next == p[(k % 3) + 1]
                  prev == p[((k + 1) % 3) + 1]
              IN /\ bs[p[k]].blocks = <<bs[next].id>>
                 /\ bs[p[k]].blocked_by = <<bs[prev].id>>

\* What the cycle operations returned for the 3-cycle.
ThreeCycleDetected ==
    (call.returned /\ ThreeCycle(beads)) =>
        /\ call.out.value.has_cycle
        /\ Range(call.out.value.cycle_nodes) = Ids(beads)

\* What the cycle operations return before and after the records are
\* reordered.
ReorderSameResult ==
    (call.returned /\ call'.returned) =>
        /\ call'.out.value.has_cycle = call.out.value.has_cycle
        /\ Range(call'.out.value.cycle_nodes) = Range(call.out.value.cycle_nodes)

\* C11: for the 3-cycle A, B, C in any of its record orders, has_cycle returns
\* true and cycle_participants returns exactly {A, B, C}; every permutation of
\* an input array gives the same has_cycle boolean and the same
\* cycle_participants set.
C11_OrderOfRecords == []ThreeCycleDetected /\ [][ReorderSameResult]_vars

\* The cycle operations have returned for the 3-cycle with its records
\* reordered, so that the ids no longer come in the order of their names.
C11_Witness ==
    /\ call.op = "cycle_detector"
    /\ call.returned
    /\ ThreeCycle(beads)
    /\ beads[1].id = "c" /\ beads[2].id = "a"
    /\ call.out.value.has_cycle
    /\ Range(call.out.value.cycle_nodes) = {"a", "b", "c"}

\* The records that list their own id in blocks and lie on no cycle through
\* another node.
SelfLoopOnly(bs) ==
    {i \in DOMAIN bs :
        bs[i].id \in Range(bs[i].blocks) /\ bs[i].id \notin InLargeComponent(bs)}

\* The ids of the vertices of the recorded components of more than one member.
LargeComponentIds ==
    {beads[v + 1].id :
        v \in UNION {Range(tj.sccs[k]) :
                        k \in {k \in DOMAIN tj.sccs : Len(tj.sccs[k]) > 1}}}

\* C12: a node that lists its own id in its blocks list and lies on no cycle
\* through another node is not reported by cycle_participants; the ids
\* reported are those of the components of more than one member.
C12_SelfLoopNotReported ==
    tj.pc = "done" =>
        /\ \A i \in SelfLoopOnly(beads) : beads[i].id \notin Range(tj.cycle_nodes)
        /\ Range(tj.cycle_nodes) = LargeComponentIds

\* The traversal has ended on an input with a node that blocks only itself
\* and two other nodes that block each other, which are reported.
C12_Witness ==
    /\ tj.pc = "done"
    /\ UniqueIds(beads)
    /\ \E i \in SelfLoopOnly(beads) : beads[i].blocks = <<beads[i].id>>
    /\ Cardinality(Range(tj.cycle_nodes)) = 2

\* list without its entry at k.
RemoveAt(list, k) == SubSeq(list, 1, k - 1) \o SubSeq(list, k + 1, Len(list))

\* The input arrays that differ from bs by one dangling reference: an entry
\* of a blocked_by list that is the id of no record is removed, or an id of no
\* record is added to a blocked_by list.
DanglingVariants(bs) ==
    {[bs EXCEPT ![i].blocked_by = RemoveAt(@, k)] :
        <<i, k>> \in {ik \in (DOMAIN bs) \X (1..MaxRefs) :
                         /\ ik[2] \in DOMAIN bs[ik[1]].blocked_by
                         /\ bs[ik[1]].blocked_by[ik[2]] \notin Ids(bs)}}
    \cup {[bs EXCEPT ![i].blocked_by = Append(@, d)] :
             <<i, d>> \in (DOMAIN bs) \X (RefIds \ Ids(bs))}

\* C13: for any id d that is not the id of an input node, adding d to or
\* removing it from a node's blocked_by list leaves the result of has_cycle
\* unchanged, and has_cycle returns no error.
C13_DanglingIgnored ==
    HasCycleReturned =>
        /\ call.out.ok
        /\ \A other \in DanglingVariants(beads) :
              has_cycle_impl(other) = call.out.value

\* has_cycle has returned true for an input with a dangling reference in the
\* blocked_by list of a node on the cycle.
C13_Witness ==
    /\ HasCycleReturned
    /\ call.out.value = TRUE
    /\ UniqueIds(beads)
    /\ \E i \in DOMAIN beads :
          /\ Dangling(beads, i) # {}
          /\ Range(beads[i].blocked_by) \cap Ids(beads) # {}
          /\ <<beads[i].id, beads[i].id>> \in Closure(BlockedByIdEdges(beads))
          /\ beads[i].id \notin Range(beads[i].blocked_by)

\* C14: each of the five operations is all-or-nothing: on a text that does
\* not decode, the call returns the decoding error with its cause and no
\* result; on a text that decodes, it returns a result and no error, whatever
\* dangling references, self-loops or unlevelled nodes the array holds.
C14_DecodeAllOrNothing ==
    (call.op \in Ops /\ call.returned) =>
        IF call.text.decodes
            THEN /\ call.out.ok
                 /\ DOMAIN call.out = {"ok", "value"}
                 /\ call.out \in Outputs(call.op, beads)
            ELSE /\ ~call.out.ok
                 /\ DOMAIN call.out = {"ok", "error"}
                 /\ call.out.error = <<"Parse error: ", call.text.cause>>

\* levels has returned the parse error for a text with a missing field.
C14_Witness ==
    /\ call.op = "compute_levels"
    /\ call.returned
    /\ ~call.text.decodes
    /\ call.out = Err(<<"Parse error: ", "missing field id">>)

\* A record is pushed on the queue only when it is given its level: no more
\* ids were pushed than there are records and, for unique ids, no id twice;
\* every id pushed has a level.
EnqueuedOnce ==
    /\ Len(lv.enqueued) <= Len(beads)
    /\ Range(lv.enqueued) = DOMAIN lv.level_map
    /\ UniqueIds(beads) =>
          \A p, q \in DOMAIN lv.enqueued : lv.enqueued[p] = lv.enqueued[q] => p = q

\* When the loop has ended the queue is empty and no record without a level
\* has all its blockers assigned.
NothingLeftToAssign ==
    lv.pc = "done" =>
        /\ lv.queue = <<>>
        /\ \A i \in DOMAIN beads :
              beads[i].id \notin DOMAIN lv.level_map =>
                  ~all_deps_processed(beads[i], lv.level_map)

\* C15: the queue loop of levels terminates on every input, with cycles,
\* self-dependencies and dangling references too: a node is enqueued only when
\* it is first assigned a level, the queue empties, and when it does no
\* unassigned node has all its blockers assigned.
C15_QueueLoopTerminates ==
    /\ [](EnqueuedOnce /\ NothingLeftToAssign)
    /\ <>(lv.pc = "done")

\* The loop has ended, for unique ids, with a node that has a level above 0 and
\* three nodes left without one: one that lists itself, one that lists an id no
\* record has, and one behind them.
C15_Witness ==
    /\ lv.pc = "done"
    /\ UniqueIds(beads)
    /\ Len(lv.enqueued) >= 2
    /\ \E i, j \in DOMAIN beads :
          /\ beads[i].id \in Range(beads[i].blocked_by)
          /\ Dangling(beads, j) # {}
          /\ i # j
          /\ beads[i].id \notin DOMAIN lv.level_map
          /\ beads[j].id \notin DOMAIN lv.level_map

\* Every blocked_by id is the id of a record.
NoDangling(bs) == \A i \in DOMAIN bs : Dangling(bs, i) = {}

\* C16: for unique ids and blocked_by ids that are all ids of input nodes,
\* levels gives a level to every input node iff has_cycle returns false on the
\* same input.
C16_CompleteIffNoCycle ==
    (lv.pc = "done" /\ UniqueIds(beads) /\ NoDangling(beads)) =>
        (Placed(lv.levels) = Ids(beads) <=> ~has_cycle_impl(beads))

\* levels has returned without a level for two nodes of a cycle, behind a node
\* at level 0, and has_cycle returns true.
C16_Witness ==
    /\ lv.pc = "done"
    /\ UniqueIds(beads)
    /\ NoDangling(beads)
    /\ has_cycle_impl(beads)
    /\ 0 \in DOMAIN lv.levels
    /\ Cardinality(Ids(beads) \ Placed(lv.levels)) = 2
    /\ \A i \in DOMAIN beads : beads[i].id \notin Range(beads[i].blocked_by)

\* No record lists its own id in blocked_by or in blocks.
NoSelfListing(bs) ==
    \A i \in DOMAIN bs :
        bs[i].id \notin Range(bs[i].blocked_by) \cup Range(bs[i].blocks)

\* C17: for unique ids, consistent blocked_by and blocks fields and no node
\* that lists its own id, has_cycle returns true iff cycle_participants
\* returns a non-empty set.
C17_CycleOperationsAgree ==
    (/\ tj.pc = "done"
     /\ UniqueIds(beads)
     /\ Consistent(beads)
     /\ NoSelfListing(beads)) =>
        (has_cycle_impl(beads) <=> tj.cycle_nodes # <<>>)

\* The traversal has ended on a consistent input of unique ids without
\* self-listing, with three participants, and has_cycle returns true.
C17_Witness ==
    /\ tj.pc = "done"
    /\ UniqueIds(beads)
    /\ Consistent(beads)
    /\ NoSelfListing(beads)
    /\ has_cycle_impl(beads)
    /\ Cardinality(Range(tj.cycle_nodes)) = 3

\* The on_stack flags are membership in the stack, and no vertex is on the
\* stack twice.
OnStackIsStack ==
    tj.pc \in {"outer", "visit", "done"} =>
        /\ \A v \in Vertices(beads) : tj.on_stack[v] <=> v \in Range(tj.stack)
        /\ \A p, q \in DOMAIN tj.stack : tj.stack[p] = tj.stack[q] => p = q

\* When the traversal has finished the stack is empty and every vertex is in
\* exactly one recorded component, once.
ComponentsPartition ==
    tj.pc = "done" =>
        /\ tj.stack = <<>>
        /\ \A v \in Vertices(beads) :
              Cardinality({kq \in (DOMAIN tj.sccs) \X (1..Len(beads)) :
                              /\ kq[2] \in DOMAIN tj.sccs[kq[1]]
                              /\ tj.sccs[kq[1]][kq[2]] = v}) = 1
        /\ \A k \in DOMAIN tj.sccs : Range(tj.sccs[k]) \subseteq Vertices(beads)

\* The end of a strongconnect(v): a component is recorded exactly when the
\* lowlink of v is its index, and it is then the stack from v up, popped down
\* to and including v.
ClosesAtRoot ==
    (tj.pc = "visit" /\ Len(tj'.frames) < Len(tj.frames)) =>
        LET v == TopFrame.v
            n == Len(tj.stack)
            m == Len(tj'.stack)
        IN IF tj.lowlinks[v] = tj.indices[v]
               THEN /\ tj'.sccs = Append(tj.sccs, [q \in 1..(n - m) |-> tj.stack[n - q + 1]])
                    /\ tj'.stack = SubSeq(tj.stack, 1, m)
                    /\ m < n
                    /\ tj.stack[m + 1] = v
                    /\ v \notin Range(tj'.stack)
               ELSE /\ tj'.sccs = tj.sccs
                    /\ tj'.stack = tj.stack

\* C18: in the Tarjan traversal a vertex closes a component exactly when its
\* lowlink equals its own index, popping the stack down to and including
\* itself; at every step the on_stack flags equal membership in the stack; when
\* the traversal finishes the stack is empty and the recorded components
\* partition the vertex set.
C18_TarjanInvariants ==
    [](OnStackIsStack /\ ComponentsPartition) /\ [][ClosesAtRoot]_vars

\* A component of two vertices has been closed while the vertex from which it
\* was reached is still on the stack.
C18_Witness ==
    /\ tj.pc = "visit"
    /\ tj.stack # <<>>
    /\ \E k \in DOMAIN tj.sccs : Len(tj.sccs[k]) = 2

\* The first record of the id x.
FirstSeen(bs, x) == SetMin({i \in DOMAIN bs : bs[i].id = x})

\* The edges between ids when the first record of every id defines the
\* blocked_by list of the id.
FirstSeenEdges(bs) ==
    {e \in Ids(bs) \X Ids(bs) : e[1] \in Range(bs[FirstSeen(bs, e[2])].blocked_by)}

\* The graph has one vertex for every distinct id.
VerticesAreDistinctIds(bs) ==
    Cardinality(build_graph(bs).nodes) = Cardinality(Ids(bs))

\* C19: records with the same id are collapsed into a single vertex, so that
\* the vertex set is the set of distinct input ids, and the first-seen record
\* of an id defines the blocked_by list from which has_cycle takes the
\* incoming edges of the vertex.
C19_DuplicatesCollapse ==
    HasCycleReturned =>
        /\ VerticesAreDistinctIds(beads)
        /\ call.out = Ok(HasDirectedCycle(FirstSeenEdges(beads)))

====
